---- MODULE Spec2Model ----
(***************************************************************************)
(* Model of the Block widget of src/widgets/block.rs: the inner-area       *)
(* computation, the border painter with border merging and the title       *)
(* compositor, painting onto a grid of cells (symbol, style).              *)
(*                                                                         *)
(* Glyphs are ASCII names.  The PLAIN table reads                          *)
(*   "TL" top-left corner      "TR" top-right corner                       *)
(*   "BL" bottom-left corner   "BR" bottom-right corner                    *)
(*   "V"  vertical line        "H"  horizontal line                        *)
(*   "TD" T pointing down      "TU" T pointing up                          *)
(*   "JL" T opening to the left   "JR" T opening to the right              *)
(*   "X"  cross                " "  the blank of an empty cell             *)
(***************************************************************************)
EXTENDS Integers, Sequences, FiniteSets, TLC

\* ------------------------------------------------------------------ bounds
GridW == 4
GridH == 3
MaxTitles == 2
MaxInnerDim == 2
MaxPad == 1
MaxPairDim == 3
MaxCalls == 3

\* --------------------------------------------------------------- u16 / Rect
U16Max == 65535

Min(a, b) == IF a < b THEN a ELSE b
Max(a, b) == IF a > b THEN a ELSE b

saturating_add(a, b) == IF a + b > U16Max THEN U16Max ELSE a + b
\* mutant: the subtraction wraps around instead of saturating
wrapping_sub(a, b) == IF a >= b THEN a - b ELSE a - b + U16Max + 1
saturating_sub(a, b) == IF a > b THEN a - b ELSE 0

Rect(x, y, w, h) == [x |-> x, y |-> y, width |-> w, height |-> h]

left(r) == r.x
right(r) == saturating_add(r.x, r.width)
top(r) == r.y
bottom(r) == saturating_add(r.y, r.height)
is_empty(r) == r.width = 0 \/ r.height = 0

intersection(r, o) ==
    LET x1 == Max(r.x, o.x)
        y1 == Max(r.y, o.y)
        x2 == Min(right(r), right(o))
        y2 == Min(bottom(r), bottom(o))
    IN  Rect(x1, y1, saturating_sub(x2, x1), saturating_sub(y2, y1))

\* the cells (column, row) a rectangle covers
positions(r) == { <<x, y>> : x \in left(r)..(right(r) - 1), y \in top(r)..(bottom(r) - 1) }

\* ------------------------------------------------------------------ styles
\* A style is one optional attribute: "default" is the unset style.
patch(base, s) == IF s = "default" THEN base ELSE s

\* ------------------------------------------------------- Borders, LineParts
LEFT == "LEFT"
RIGHT == "RIGHT"
TOP == "TOP"
BOTTOM == "BOTTOM"
NONE == {}
ALL == {LEFT, RIGHT, TOP, BOTTOM}
Borders == SUBSET ALL

\* LineParts::from(Borders): each edge gives the part of the same name
line_parts_from_borders(b) ==
    {"UP" : e \in b \cap {TOP}} \cup {"DOWN" : e \in b \cap {BOTTOM}}
      \cup {"LEFT" : e \in b \cap {LEFT}} \cup {"RIGHT" : e \in b \cap {RIGHT}}

\* ------------------------------------------------------------ symbol tables
PLAIN ==
    [top_left |-> "TL", top_right |-> "TR", bottom_left |-> "BL", bottom_right |-> "BR",
     vertical_left |-> "V", vertical_right |-> "V",
     horizontal_top |-> "H", horizontal_bottom |-> "H",
     vertical_t_left |-> "JL", vertical_t_right |-> "JR",
     horizontal_t_down |-> "TD", horizontal_t_up |-> "TU", cross |-> "X"]

ROUNDED ==
    [PLAIN EXCEPT !.top_left = "rTL", !.top_right = "rTR",
                  !.bottom_left = "rBL", !.bottom_right = "rBR"]

QUADRANT_OUTSIDE ==
    [top_left |-> "qTL", top_right |-> "qTR", bottom_left |-> "qBL", bottom_right |-> "qBR",
     vertical_left |-> "qL", vertical_right |-> "qR",
     horizontal_top |-> "qT", horizontal_bottom |-> "qB",
     vertical_t_left |-> "qF", vertical_t_right |-> "qF",
     horizontal_t_down |-> "qF", horizontal_t_up |-> "qF", cross |-> "qF"]

\* the custom table of tests::render_merged_custom_set
CUSTOM ==
    [top_left |-> "1", top_right |-> "2", bottom_left |-> "3", bottom_right |-> "4",
     vertical_left |-> "L", vertical_right |-> "R",
     horizontal_top |-> "T", horizontal_bottom |-> "B",
     vertical_t_left |-> "<", vertical_t_right |-> ">",
     horizontal_t_down |-> "v", horizontal_t_up |-> "^", cross |-> "C"]

\* the custom table of tests::render_custom_border_set: blank junctions
CUSTOM_BLANK ==
    [CUSTOM EXCEPT !.vertical_t_left = " ", !.vertical_t_right = " ",
                   !.horizontal_t_down = " ", !.horizontal_t_up = " ", !.cross = " "]

Tables == {PLAIN, ROUNDED, QUADRANT_OUTSIDE, CUSTOM, CUSTOM_BLANK}

\* the thirteen roles in the order the reverse lookup scans them, each with
\* the parts it stands for
Roles ==
    << [role |-> "top_left",          parts |-> {"UP", "LEFT"}],
       [role |-> "top_right",         parts |-> {"UP", "RIGHT"}],
       [role |-> "bottom_left",       parts |-> {"DOWN", "LEFT"}],
       [role |-> "bottom_right",      parts |-> {"DOWN", "RIGHT"}],
       [role |-> "vertical_left",     parts |-> {"UP", "DOWN"}],
       [role |-> "vertical_right",    parts |-> {"UP", "DOWN"}],
       [role |-> "horizontal_top",    parts |-> {"LEFT", "RIGHT"}],
       [role |-> "horizontal_bottom", parts |-> {"LEFT", "RIGHT"}],
       [role |-> "horizontal_t_down", parts |-> {"UP", "LEFT", "RIGHT"}],
       [role |-> "horizontal_t_up",   parts |-> {"DOWN", "LEFT", "RIGHT"}],
       [role |-> "vertical_t_left",   parts |-> {"UP", "DOWN", "RIGHT"}],
       [role |-> "vertical_t_right",  parts |-> {"UP", "DOWN", "LEFT"}],
       [role |-> "cross",             parts |-> {"UP", "DOWN", "LEFT", "RIGHT"}] >>

\* Option<LineParts>: the parts of the first role whose glyph is `symbol`
line_parts_from_symbol(set, symbol) ==
    LET hits == { i \in 1..Len(Roles) : set[Roles[i].role] = symbol }
    IN  IF hits = {} THEN [some |-> FALSE, parts |-> {}]
        ELSE LET first == CHOOSE i \in hits : \A j \in hits : i <= j
             IN  [some |-> TRUE, parts |-> Roles[first].parts]

\* the glyph of the first role standing for exactly `parts`; blank otherwise
symbol_from_line_parts(set, parts) ==
    LET hits == { i \in 1..Len(Roles) : Roles[i].parts = parts }
    IN  IF hits = {} THEN " "
        ELSE set[Roles[CHOOSE i \in hits : \A j \in hits : i <= j].role]

\* ------------------------------------------------------------------- Block
Alignments == {"Left", "Center", "Right"}
Positions == {"Top", "Bottom"}

\* Padding::zero()
PaddingZero == [left |-> 0, right |-> 0, top |-> 0, bottom |-> 0]

\* Title::from(content): no explicit position, no explicit alignment; the
\* content is a sequence of one-column glyphs
Title(content) ==
    [content |-> content, style |-> "default", alignment |-> "None", position |-> "None"]
title_with_alignment(t, a) == [t EXCEPT !.alignment = a]
title_with_position(t, p) == [t EXCEPT !.position = p]

\* Block::new()
new ==
    [titles |-> << >>, titles_style |-> "default", titles_alignment |-> "Left",
     titles_position |-> "Top", borders |-> NONE, merge_borders |-> NONE,
     border_style |-> "default", border_set |-> PLAIN, style |-> "default",
     padding |-> PaddingZero]

bordered == [new EXCEPT !.borders = ALL]

resolved_position(b, t) == IF t.position = "None" THEN b.titles_position ELSE t.position
resolved_alignment(b, t) == IF t.alignment = "None" THEN b.titles_alignment ELSE t.alignment

\* mutant: the defaults are applied to the title when it is added
title_resolved_when_added(b, t) ==
    [b EXCEPT !.titles = Append(@, [t EXCEPT !.position = resolved_position(b, t),
                                             !.alignment = resolved_alignment(b, t)])]
title(b, t) == [b EXCEPT !.titles = Append(@, t)]
title_top(b, t) == [b EXCEPT !.titles = Append(@, title_with_position(t, "Top"))]
title_bottom(b, t) == [b EXCEPT !.titles = Append(@, title_with_position(t, "Bottom"))]
title_style(b, s) == [b EXCEPT !.titles_style = s]
title_alignment(b, a) == [b EXCEPT !.titles_alignment = a]
title_position(b, p) == [b EXCEPT !.titles_position = p]
border_style(b, s) == [b EXCEPT !.border_style = s]
style(b, s) == [b EXCEPT !.style = s]
borders(b, flag) == [b EXCEPT !.borders = flag]
border_set(b, set) == [b EXCEPT !.border_set = set]
merge_with(b, flag) == [b EXCEPT !.merge_borders = flag]
padding(b, p) == [b EXCEPT !.padding = p]


\* mutant: only the explicit position of a title counts
have_explicit_title_at_position(b, position) ==
    \E i \in 1..Len(b.titles) : b.titles[i].position = position
have_title_at_position(b, position) ==
    \E i \in 1..Len(b.titles) : resolved_position(b, b.titles[i]) = position

\* the conditions of Block::inner under which a side is inset by one
\* mutant: a merged left edge is inset all the same
left_inset_despite_merge(b) == LEFT \in b.borders
left_inset(b) == LEFT \in b.borders /\ LEFT \notin b.merge_borders
\* mutant: a merged top edge is inset all the same
top_inset_despite_merge(b) == TOP \in b.borders \/ have_title_at_position(b, "Top")
top_inset(b) ==
    (TOP \in b.borders \/ have_title_at_position(b, "Top")) /\ TOP \notin b.merge_borders
\* mutant: the right inset tests the left edge
right_inset_tests_left(b) == LEFT \in b.borders /\ RIGHT \notin b.merge_borders
right_inset(b) == RIGHT \in b.borders /\ RIGHT \notin b.merge_borders
bottom_inset(b) ==
    (BOTTOM \in b.borders \/ have_title_at_position(b, "Bottom"))
      /\ BOTTOM \notin b.merge_borders

\* Block::inner
inner(b, area) ==
    LET s1 == IF left_inset(b)
              THEN [area EXCEPT !.x = Min(saturating_add(area.x, 1), right(area)),
                                !.width = saturating_sub(area.width, 1)]
              ELSE area
        s2 == IF top_inset(b)
              THEN [s1 EXCEPT !.y = Min(saturating_add(s1.y, 1), bottom(s1)),
                              !.height = saturating_sub(s1.height, 1)]
              ELSE s1
        s3 == IF right_inset(b)
              THEN [s2 EXCEPT !.width = saturating_sub(s2.width, 1)]
              ELSE s2
        s4 == IF bottom_inset(b)
              THEN [s3 EXCEPT !.height = saturating_sub(s3.height, 1)]
              ELSE s3
    IN  Rect(saturating_add(s4.x, b.padding.left),
             saturating_add(s4.y, b.padding.top),
             saturating_sub(s4.width, (b.padding.left + b.padding.right) % (U16Max + 1)),
             saturating_sub(s4.height, (b.padding.top + b.padding.bottom) % (U16Max + 1)))

\* `self.padding.left + self.padding.right` and `self.padding.top +
\* self.padding.bottom` are plain u16 additions: past U16Max they panic in a
\* build with overflow checks and wrap around in a build without (as inner
\* computes them)
padding_overflows(b) ==
    \/ b.padding.left + b.padding.right > U16Max
    \/ b.padding.top + b.padding.bottom > U16Max

\* the outcomes of Block::inner: the result, or the panic of the checked build
inner_outcomes(b, area) ==
    { [result |-> inner(b, area), panicked |-> FALSE] }
      \cup (IF padding_overflows(b) THEN { [result |-> area, panicked |-> TRUE] } ELSE {})

\* ------------------------------------------------------------------ Buffer
\* Buffer::empty(area): every cell blank with the unset style
empty_cell == [symbol |-> " ", style |-> "default"]
Buffer_empty(area) == [area |-> area, content |-> [p \in positions(area) |-> empty_cell]]

\* A paint state threads the grid through one render call: `content` is the
\* grid, `written` the cells whose symbol the call has set, `titles` the
\* paint rectangle of every title painted so far, in paint order, `sides` the
\* cells each edge painter wrote, `corners` the corners resolved so far, in
\* order, each with its cell, its merge mask and the glyph it read.
PaintState(buf) ==
    [area |-> buf.area, content |-> buf.content, written |-> {}, titles |-> << >>,
     panicked |-> FALSE, sides |-> [e \in ALL |-> {}], corners |-> << >>]

\* Buffer::set_style(area, style): patches the style of the cells of the
\* area that lie in the buffer
set_style(s, area, st) ==
    LET cells == positions(intersection(s.area, area))
    IN  [s EXCEPT !.content = [p \in DOMAIN s.content |->
            IF p \in cells THEN [s.content[p] EXCEPT !.style = patch(@, st)] ELSE s.content[p]]]

\* buf.get_mut(x, y).set_symbol(symbol).set_style(style) for every cell of
\* `cells`; the caller guarantees the cells are inside the buffer
set_cells(s, cells, symbol, st) ==
    [s EXCEPT !.content = [p \in DOMAIN s.content |->
                 IF p \in cells THEN [symbol |-> symbol, style |-> patch(s.content[p].style, st)]
                 ELSE s.content[p]],
              !.written = @ \cup (cells \cap DOMAIN s.content)]

\* Line::render_ref(area, buf) of a title content: the leading glyphs of the
\* content, one per column from the left of the area, truncated to the width
\* of the area and to the buffer, each with the content style patched on
render_line(s, t, area) ==
    LET clip == intersection(area, s.area)
        n == Min(Len(t.content), clip.width)
        cells == IF is_empty(clip) THEN {} ELSE { <<clip.x + i, clip.y>> : i \in 0..(n - 1) }
    IN  [s EXCEPT !.content = [p \in DOMAIN s.content |->
                     IF p \in cells
                     THEN [symbol |-> t.content[p[1] - clip.x + 1],
                           style |-> patch(s.content[p].style, t.style)]
                     ELSE s.content[p]],
                  !.written = @ \cup cells]

\* --------------------------------------------------------- frame geometry
\* mutant: the area is not grown toward the merged edges
compensate_nothing(b, area) == area
\* Block::compensate_area_rect
compensate_area_rect(b, area) ==
    LET r1 == IF LEFT \in b.merge_borders
              THEN [area EXCEPT !.x = saturating_sub(area.x, 1), !.width = @ + 1] ELSE area
        r2 == IF RIGHT \in b.merge_borders THEN [r1 EXCEPT !.width = @ + 1] ELSE r1
        r3 == IF TOP \in b.merge_borders
              THEN [r2 EXCEPT !.y = saturating_sub(r2.y, 1), !.height = @ + 1] ELSE r2
        r4 == IF BOTTOM \in b.merge_borders THEN [r3 EXCEPT !.height = @ + 1] ELSE r3
    IN  r4

\* mutant: the top row is left out whether or not Top is merged
vertical_border_rect_top_always_shrunk(b, area) ==
    LET r1 == [area EXCEPT !.y = @ + 1, !.height = @ - 1]
        r2 == IF BOTTOM \in b.merge_borders THEN [r1 EXCEPT !.height = @ - 1] ELSE r1
    IN  r2
\* Block::calculate_vertical_border_rect; height may go below zero, which is
\* the u16 subtraction overflowing (see border_rect_overflows)
calculate_vertical_border_rect(b, area) ==
    LET r1 == IF TOP \in b.merge_borders
              THEN [area EXCEPT !.y = @ + 1, !.height = @ - 1] ELSE area
        r2 == IF BOTTOM \in b.merge_borders THEN [r1 EXCEPT !.height = @ - 1] ELSE r1
    IN  r2

\* mutant: the top and bottom edges span the whole width when merging
horizontal_border_rect_unshrunk(b, area) == area
\* Block::calculate_horizontal_border_rect
calculate_horizontal_border_rect(b, area) ==
    LET r1 == IF LEFT \in b.merge_borders
              THEN [area EXCEPT !.x = @ + 1, !.width = @ - 1] ELSE area
        r2 == IF RIGHT \in b.merge_borders THEN [r1 EXCEPT !.width = @ - 1] ELSE r1
    IN  r2

\* `rect.height -= 1` / `rect.width -= 1` on a zero size: attempt to
\* subtract with overflow, the render call panics
border_rect_overflows(b, area) ==
    \/ calculate_vertical_border_rect(b, area).height < 0
    \/ calculate_horizontal_border_rect(b, area).width < 0

\* ---------------------------------------------------------- border painter
render_left_side(b, area, s) ==
    IF LEFT \in b.borders /\ LEFT \notin b.merge_borders
    THEN set_cells(s, { <<left(area), y>> : y \in top(area)..(bottom(area) - 1) },
                   b.border_set.vertical_left, b.border_style)
    ELSE s

\* mutant: the top edge is painted with the glyph of the bottom edge
render_top_side_bottom_glyph(b, area, s) ==
    IF TOP \in b.borders /\ TOP \notin b.merge_borders
    THEN set_cells(s, { <<x, top(area)>> : x \in left(area)..(right(area) - 1) },
                   b.border_set.horizontal_bottom, b.border_style)
    ELSE s

render_top_side(b, area, s) ==
    IF TOP \in b.borders /\ TOP \notin b.merge_borders
    THEN set_cells(s, { <<x, top(area)>> : x \in left(area)..(right(area) - 1) },
                   b.border_set.horizontal_top, b.border_style)
    ELSE s

render_right_side(b, area, s) ==
    IF RIGHT \in b.borders /\ RIGHT \notin b.merge_borders
    THEN set_cells(s, { <<right(area) - 1, y>> : y \in top(area)..(bottom(area) - 1) },
                   b.border_set.vertical_right, b.border_style)
    ELSE s

render_bottom_side(b, area, s) ==
    IF BOTTOM \in b.borders /\ BOTTOM \notin b.merge_borders
    THEN set_cells(s, { <<x, bottom(area) - 1>> : x \in left(area)..(right(area) - 1) },
                   b.border_set.horizontal_bottom, b.border_style)
    ELSE s

\* mutant: the parts to merge are toggled in the parts of the glyph
render_merged_corner_toggling(b, s, cell, borders_to_merge) ==
    LET current_parts == line_parts_from_symbol(b.border_set, s.content[cell].symbol)
        add == line_parts_from_borders(borders_to_merge)
    IN  IF borders_to_merge = {} \/ ~current_parts.some THEN [done |-> FALSE, s |-> s]
        ELSE [done |-> TRUE,
              s |-> set_cells(s, {cell},
                              symbol_from_line_parts(b.border_set,
                                  (current_parts.parts \ add) \cup (add \ current_parts.parts)),
                              b.border_style)]
\* mutant: a glyph of more than two parts, a junction, is never extended
render_merged_corner_once(b, s, cell, borders_to_merge) ==
    LET current_parts == line_parts_from_symbol(b.border_set, s.content[cell].symbol)
        target_parts == IF Cardinality(current_parts.parts) > 2 THEN current_parts.parts
                        ELSE current_parts.parts \cup line_parts_from_borders(borders_to_merge)
    IN  IF borders_to_merge = {} \/ ~current_parts.some THEN [done |-> FALSE, s |-> s]
        ELSE [done |-> TRUE,
              s |-> set_cells(s, {cell}, symbol_from_line_parts(b.border_set, target_parts),
                              b.border_style)]
\* mutant: the parts of the glyph in the cell are dropped, not united
render_merged_corner_dropping(b, s, cell, borders_to_merge) ==
    LET current_parts == line_parts_from_symbol(b.border_set, s.content[cell].symbol)
    IN  IF borders_to_merge = {} \/ ~current_parts.some THEN [done |-> FALSE, s |-> s]
        ELSE [done |-> TRUE,
              s |-> set_cells(s, {cell},
                              symbol_from_line_parts(b.border_set,
                                                     line_parts_from_borders(borders_to_merge)),
                              b.border_style)]
\* Block::render_merged_corner: [done, s]; done is the bool the code returns
render_merged_corner(b, s, cell, borders_to_merge) ==
    LET current_parts == line_parts_from_symbol(b.border_set, s.content[cell].symbol)
    IN  IF borders_to_merge = {} THEN [done |-> FALSE, s |-> s]
        ELSE IF ~current_parts.some THEN [done |-> FALSE, s |-> s]
        ELSE LET target_parts == current_parts.parts \cup line_parts_from_borders(borders_to_merge)
                 corner_symbol == symbol_from_line_parts(b.border_set, target_parts)
             IN  [done |-> TRUE, s |-> set_cells(s, {cell}, corner_symbol, b.border_style)]

\* mutant: the plain corner is written even after a merged corner
render_corner_plain_after_merge(b, s, cell, edges, symbol) ==
    LET merged == render_merged_corner(b, s, cell, b.merge_borders \cap edges)
    IN  IF edges \subseteq b.borders THEN set_cells(merged.s, {cell}, symbol, b.border_style)
        ELSE merged.s
\* the body the four corner functions share: the merged corner first, the
\* plain corner when no merge happened and both edges are visible
render_corner(b, s, cell, edges, symbol) ==
    LET borders_to_merge == b.merge_borders \cap edges
        merged == render_merged_corner(b, s, cell, borders_to_merge)
        seen == [cell |-> cell, mask |-> borders_to_merge, read |-> s.content[cell].symbol]
        out == IF merged.done THEN merged.s
               ELSE IF edges \subseteq b.borders
                    THEN set_cells(s, {cell}, symbol, b.border_style)
               ELSE s
    IN  [out EXCEPT !.corners = Append(@, seen)]

render_bottom_right_corner(b, s, area) ==
    render_corner(b, s, <<right(area) - 1, bottom(area) - 1>>, {RIGHT, BOTTOM},
                  b.border_set.bottom_right)

\* mutant: the top-right corner is resolved in the cell of the top-left one
render_top_right_corner_at_top_left(b, s, area) ==
    render_corner(b, s, <<left(area), top(area)>>, {RIGHT, TOP}, b.border_set.top_right)
render_top_right_corner(b, s, area) ==
    render_corner(b, s, <<right(area) - 1, top(area)>>, {RIGHT, TOP}, b.border_set.top_right)

render_bottom_left_corner(b, s, area) ==
    render_corner(b, s, <<left(area), bottom(area) - 1>>, {LEFT, BOTTOM},
                  b.border_set.bottom_left)

render_top_left_corner(b, s, area) ==
    render_corner(b, s, <<left(area), top(area)>>, {LEFT, TOP}, b.border_set.top_left)

\* the four edge painters of Block::render_borders, for an area whose border
\* rects do not overflow
render_edges(b, area, s) ==
    LET horizontal_border_rect == calculate_horizontal_border_rect(b, area)
        vertical_border_rect == calculate_vertical_border_rect(b, area)
        e1 == render_left_side(b, vertical_border_rect, s)
        e2 == render_top_side(b, horizontal_border_rect, e1)
        e3 == render_right_side(b, vertical_border_rect, e2)
        e4 == render_bottom_side(b, horizontal_border_rect, e3)
        unwritten == [s EXCEPT !.written = {}]
        sides == [e \in ALL |->
                    CASE e = LEFT -> render_left_side(b, vertical_border_rect, unwritten).written
                      [] e = TOP -> render_top_side(b, horizontal_border_rect, unwritten).written
                      [] e = RIGHT -> render_right_side(b, vertical_border_rect, unwritten).written
                      [] e = BOTTOM ->
                           render_bottom_side(b, horizontal_border_rect, unwritten).written]
    IN  [e4 EXCEPT !.sides = sides]

\* the order in which Block::render_borders resolves the corners
CornerOrder == << "bottom_right", "top_right", "bottom_left", "top_left" >>

\* the corners named by order[k..], resolved one after the other
RECURSIVE resolve_corners(_, _, _, _, _)
resolve_corners(b, s, area, order, k) ==
    IF k > Len(order) THEN s
    ELSE LET resolved == CASE order[k] = "bottom_right" -> render_bottom_right_corner(b, s, area)
                           [] order[k] = "top_right" -> render_top_right_corner(b, s, area)
                           [] order[k] = "bottom_left" -> render_bottom_left_corner(b, s, area)
                           [] order[k] = "top_left" -> render_top_left_corner(b, s, area)
         IN  resolve_corners(b, resolved, area, order, k + 1)

\* Block::render_borders: the edges, then the corners
render_borders(b, area, s) == resolve_corners(b, render_edges(b, area, s), area, CornerOrder, 1)

\* -------------------------------------------------------- title compositor
\* Block::filtered_titles: the indices, in declaration order, of the titles
\* whose resolved position and alignment match
filtered_titles(b, position, alignment) ==
    LET matches(i) == /\ resolved_position(b, b.titles[i]) = position
                      /\ resolved_alignment(b, b.titles[i]) = alignment
    IN  SelectSeq([i \in 1..Len(b.titles) |-> i], matches)

\* mutant: the title row runs over the left border
titles_area_over_left_border(b, area, position) ==
    LET right_border == IF RIGHT \in b.borders THEN 1 ELSE 0
    IN  Rect(left(area),
             IF position = "Top" THEN top(area) ELSE bottom(area) - 1,
             saturating_sub(area.width, right_border),
             1)
\* mutant: the title row runs over the right border
titles_area_over_right_border(b, area, position) ==
    LET left_border == IF LEFT \in b.borders THEN 1 ELSE 0
    IN  Rect(left(area) + left_border,
             IF position = "Top" THEN top(area) ELSE bottom(area) - 1,
             saturating_sub(area.width, left_border),
             1)
\* Block::titles_area
titles_area(b, area, position) ==
    LET left_border == IF LEFT \in b.borders THEN 1 ELSE 0
        right_border == IF RIGHT \in b.borders THEN 1 ELSE 0
    IN  Rect(left(area) + left_border,
             IF position = "Top" THEN top(area) ELSE bottom(area) - 1,
             saturating_sub(saturating_sub(area.width, left_border), right_border),
             1)

\* title.content.width()
title_width(t) == Len(t.content)

\* buf.set_style(title_area, titles_style); title.content.render_ref(title_area, buf)
render_title(b, s, i, pass, title_area) ==
    LET styled == set_style(s, title_area, b.titles_style)
        drawn == render_line(styled, b.titles[i], title_area)
    IN  [drawn EXCEPT !.titles = Append(@, [index |-> i, pass |-> pass, area |-> title_area])]

\* the loop of render_right_titles: titles[k], titles[k-1], ... against the
\* band `band` that shrinks from the right
RECURSIVE right_titles_loop(_, _, _, _, _)
right_titles_loop(b, titles, k, band, s) ==
    IF k = 0 \/ is_empty(band) THEN s
    ELSE LET width == title_width(b.titles[titles[k]])
             title_area == [band EXCEPT
                              !.x = Max(saturating_sub(right(band), width), left(band)),
                              !.width = Min(width, band.width)]
             painted == render_title(b, s, titles[k], "Right", title_area)
             rest == [band EXCEPT !.width = saturating_sub(saturating_sub(band.width, width), 1)]
         IN  right_titles_loop(b, titles, k - 1, rest, painted)

\* mutant: the right-aligned titles are processed in declaration order
render_right_titles_in_declaration_order(b, position, area, s) ==
    LET titles == filtered_titles(b, position, "Right")
        reversed == [i \in 1..Len(titles) |-> titles[Len(titles) + 1 - i]]
    IN  right_titles_loop(b, reversed, Len(titles), titles_area(b, area, position), s)

render_right_titles(b, position, area, s) ==
    LET titles == filtered_titles(b, position, "Right")
    IN  right_titles_loop(b, titles, Len(titles), titles_area(b, area, position), s)

\* the loop the centre and the left pass share: titles[k], titles[k+1], ...
\* from the left of `band`, which moves right and shrinks
RECURSIVE packed_titles_loop(_, _, _, _, _, _)
\* mutant: a title wider than the band is skipped, not clipped
packed_titles_loop_skipping(b, titles, k, band, pass, s) ==
    IF k > Len(titles) \/ is_empty(band) THEN s
    ELSE LET width == title_width(b.titles[titles[k]])
             painted == render_title(b, s, titles[k], pass, [band EXCEPT !.width = width])
             rest == [band EXCEPT !.x = saturating_add(band.x, width + 1),
                                  !.width = saturating_sub(band.width, width + 1)]
         IN  IF width > band.width THEN packed_titles_loop(b, titles, k + 1, band, pass, s)
             ELSE packed_titles_loop(b, titles, k + 1, rest, pass, painted)
packed_titles_loop(b, titles, k, band, pass, s) ==
    IF k > Len(titles) \/ is_empty(band) THEN s
    ELSE LET width == title_width(b.titles[titles[k]])
             title_area == [band EXCEPT !.width = Min(width, band.width)]
             painted == render_title(b, s, titles[k], pass, title_area)
             rest == [band EXCEPT !.x = saturating_add(band.x, width + 1),
                                  !.width = saturating_sub(band.width, width + 1)]
         IN  packed_titles_loop(b, titles, k + 1, rest, pass, painted)

RECURSIVE sum_widths(_, _, _)
sum_widths(b, titles, k) ==
    IF k > Len(titles) THEN 0
    ELSE title_width(b.titles[titles[k]]) + 1 + sum_widths(b, titles, k + 1)

\* mutant: the separator after the last title is counted
center_total_width_trailing_separator(b, titles) == sum_widths(b, titles, 1)
\* the total width of the centred titles with one separator between them
center_total_width(b, titles) == saturating_sub(sum_widths(b, titles, 1), 1)

render_center_titles(b, position, area, s) ==
    LET titles == filtered_titles(b, position, "Center")
        total_width == center_total_width(b, titles)
        row == titles_area(b, area, position)
        band == [row EXCEPT !.x = left(row) + (saturating_sub(row.width, total_width) \div 2)]
    IN  packed_titles_loop(b, titles, 1, band, "Center", s)

render_left_titles(b, position, area, s) ==
    packed_titles_loop(b, filtered_titles(b, position, "Left"), 1,
                       titles_area(b, area, position), "Left", s)

\* mutant: left, then centre, then right
render_title_position_left_first(b, position, area, s) ==
    render_right_titles(b, position, area,
        render_center_titles(b, position, area,
            render_left_titles(b, position, area, s)))
\* Block::render_title_position: right, then centre, then left
render_title_position(b, position, area, s) ==
    render_left_titles(b, position, area,
        render_center_titles(b, position, area,
            render_right_titles(b, position, area, s)))

render_titles(b, area, s) ==
    render_title_position(b, "Bottom", area, render_title_position(b, "Top", area, s))

\* ------------------------------------------------------------------ render
\* the area the frame paints: the compensated area clipped to the buffer
paint_area(b, area, buf) == intersection(compensate_area_rect(b, area), buf.area)

\* mutant: the titles are painted on the requested area
render_ref_titles_on_requested_area(b, area, buf) ==
    LET clipped == paint_area(b, area, buf)
        s0 == PaintState(buf)
    IN  IF is_empty(clipped) THEN s0
        ELSE LET filled == set_style(s0, clipped, b.style)
             IN  IF border_rect_overflows(b, clipped)
                 THEN [filled EXCEPT !.panicked = TRUE]
                 ELSE render_titles(b, intersection(area, buf.area),
                                    render_borders(b, clipped, filled))
\* WidgetRef::render_ref for Block: the paint state after the call
render_ref(b, area, buf) ==
    LET clipped == paint_area(b, area, buf)
        s0 == PaintState(buf)
    IN  IF is_empty(clipped) THEN s0
        ELSE LET filled == set_style(s0, clipped, b.style)
             IN  IF border_rect_overflows(b, clipped)
                 THEN [filled EXCEPT !.panicked = TRUE]
                 ELSE render_titles(b, clipped, render_borders(b, clipped, filled))

\* ------------------------------------------------------------------ state
VARIABLES
    layout,   \* what the caller renders: [grid, frames], a frame is [block, area]
    buf,      \* the buffer: [area, content]
    prev,     \* the content of the buffer before the last render call
    history,  \* the frames rendered onto the buffer, oldest first
    paint,    \* what the last render call did: [written, titles, panicked]
    query,    \* the inner-area query: [asked, block, area, result, panicked]
    calls     \* the builder calls that made query.block, oldest first: [op, arg]

vars == <<layout, buf, prev, history, paint, query, calls>>

NoPaint ==
    [written |-> {}, titles |-> << >>, panicked |-> FALSE, sides |-> [e \in ALL |-> {}],
     corners |-> << >>]
NoRect == Rect(0, 0, 0, 0)
NoQuery ==
    [asked |-> FALSE, block |-> new, area |-> NoRect, result |-> NoRect, panicked |-> FALSE]
NoLayout == [grid |-> NoRect, frames |-> << >>]

Frame(b, area) == [block |-> b, area |-> area]

\* the state of a caller that has created the buffer of the layout `l`
Start(l) ==
    /\ layout = l
    /\ buf = Buffer_empty(l.grid)
    /\ prev = buf.content
    /\ history = << >>
    /\ paint = NoPaint
    /\ calls = << >>

\* Widget::render of the frame `f` onto the buffer
RenderFrame(f) ==
    LET s == render_ref(f.block, f.area, buf)
    IN  /\ buf' = [buf EXCEPT !.content = s.content]
        /\ prev' = buf.content
        /\ history' = Append(history, f)
        /\ paint' = [written |-> s.written, titles |-> s.titles, panicked |-> s.panicked,
                     sides |-> s.sides, corners |-> s.corners]
        /\ UNCHANGED <<layout, query, calls>>

\* Block::inner asked of the block `b` and the area `area`
InnerQuery(b, area) ==
    /\ \E o \in inner_outcomes(b, area) :
          query' = [asked |-> TRUE, block |-> b, area |-> area, result |-> o.result,
                    panicked |-> o.panicked]
    /\ UNCHANGED <<layout, buf, prev, history, paint, calls>>

Last == history[Len(history)]
Rendered == history # << >> /\ ~paint.panicked

\* ------------------------------------------- Spec: one frame on a new buffer
\* the buffers of the unit tests and one small buffer
TestGrids == { Rect(0, 0, 15, 3), Rect(0, 0, 8, 1) }
SmallGrid == Rect(0, 0, GridW, GridH)
Grids == TestGrids \cup {SmallGrid}

TEST == <<"t", "e", "s", "t">>

\* tests::title
SixTitles ==
    LET T(c, p, a) == title_with_alignment(title_with_position(Title(<<c>>), p), a)
    IN  title(title(title(title(title(title(bordered,
            T("A", "Top", "Left")), T("B", "Top", "Center")), T("C", "Top", "Right")),
            T("D", "Bottom", "Left")), T("E", "Bottom", "Center")), T("F", "Bottom", "Right"))

\* the blocks the unit tests render onto their buffers
TestBlocks ==
    { border_set(bordered, t) : t \in Tables }
      \cup { SixTitles, title(bordered, Title(TEST)) }
      \cup { title_alignment(title(new, Title(TEST)), a) : a \in Alignments }
      \cup { title_alignment(title(new, title_with_alignment(Title(TEST), a)), d) :
               a \in Alignments, d \in Alignments }
      \cup { title_position(title(new, Title(TEST)), "Bottom") }

\* title kinds of the small buffer
TitleKinds ==
    { title_with_alignment(Title(<<"l", "m">>), "Left"),
      title_with_alignment(Title(<<"c", "d">>), "Center"),
      title_with_alignment(Title(<<"r", "s">>), "Right"),
      title_with_position(title_with_alignment(Title(<<"q">>), "Right"), "Bottom"),
      Title(<<"v", "w", "x", "y", "z">>) }

TitleLists == UNION { [1..n -> TitleKinds] : n \in 0..MaxTitles }

\* every combination of visible and merged edges, no title
BorderBlocks ==
    { merge_with(borders(new, bs), ms) : bs \in Borders, ms \in Borders }
      \cup { border_set(bordered, t) : t \in Tables }

\* lists of titles on the frames whose edges matter to the title rows
TitleBlocks ==
    { [new EXCEPT !.titles = ts, !.borders = bs, !.merge_borders = ms] :
        ts \in TitleLists \ {<< >>},
        bs \in {NONE, {LEFT}, {RIGHT}, ALL},
        ms \in {NONE, {LEFT, TOP}} }

BorderAreas ==
    { Rect(x, y, w, h) : x \in 0..1, y \in 0..1, w \in 0..GridW, h \in {0, 1, 2, GridH} }
TitleAreas ==
    { Rect(x, 0, w, h) : x \in 0..1, w \in 0..GridW, h \in 1..2 }

\* frames that merge two opposite edges, rendered onto a whole buffer
OppositeMerges ==
    { merge_with(borders(new, bs), ms) :
        bs \in {NONE, ALL}, ms \in {{TOP, BOTTOM}, {LEFT, RIGHT}, ALL} }

RenderCalls(grid) ==
    IF grid \in TestGrids
    THEN { Frame(b, grid) : b \in TestBlocks \cup OppositeMerges }
    ELSE { Frame(b, a) : b \in BorderBlocks, a \in BorderAreas }
           \cup { Frame(b, a) : b \in TitleBlocks, a \in TitleAreas }

Init == query = NoQuery /\ \E g \in Grids : Start([grid |-> g, frames |-> << >>])

\* one frame rendered onto the new buffer
Render == history = << >> /\ ~paint.panicked /\ \E f \in RenderCalls(layout.grid) : RenderFrame(f)

Next == Render

Spec == Init /\ [][Next]_vars

\* ------------------------------------------- SpecInner: inner-area queries
InnerTitleKinds ==
    { Title(<<"T">>), title_with_position(Title(<<"T">>), "Top"),
      title_with_position(Title(<<"T">>), "Bottom") }

InnerTitleLists == UNION { [1..n -> InnerTitleKinds] : n \in 0..MaxTitles }

Paddings ==
    { PaddingZero, [left |-> 1, right |-> MaxPad, top |-> MaxPad, bottom |-> 0] }

InnerBlocks ==
    { [new EXCEPT !.borders = bs, !.merge_borders = ms, !.titles = ts,
                  !.titles_position = p, !.padding = pad] :
        bs \in Borders, ms \in Borders, ts \in InnerTitleLists, p \in Positions,
        pad \in Paddings }

\* areas at the origin and off it, zero sizes included, and the area of
\* tests::inner_takes_into_account_merge
InnerAreas ==
    { Rect(0, 0, w, h) : w \in 0..MaxInnerDim, h \in 0..MaxInnerDim }
      \cup { Rect(1, 1, 1, 1), Rect(2, 1, MaxInnerDim, 1), Rect(1, 1, 5, 5) }

InitInner == query = NoQuery /\ Start(NoLayout)

Inner == ~query.asked /\ \E b \in InnerBlocks, a \in InnerAreas : InnerQuery(b, a)

NextInner == Inner

SpecInner == InitInner /\ [][NextInner]_vars

\* ----------------------------------- SpecBuilder: chains of builder calls
BuilderTitles ==
    { Title(TEST), title_with_position(Title(TEST), "Top"),
      title_with_position(Title(TEST), "Bottom"),
      title_with_alignment(Title(TEST), "Right"),
      title_with_alignment(title_with_position(Title(TEST), "Bottom"), "Center") }

\* one builder call applied to the block under construction
Call(op, arg, built) ==
    /\ Len(calls) < MaxCalls
    /\ ~query.asked
    /\ query' = [query EXCEPT !.block = built]
    /\ calls' = Append(calls, [op |-> op, arg |-> arg])
    /\ UNCHANGED <<layout, buf, prev, history, paint>>

CallTitle == \E t \in BuilderTitles : Call("title", t, title(query.block, t))
CallTitleTop == Call("title_top", Title(TEST), title_top(query.block, Title(TEST)))
CallTitleBottom == Call("title_bottom", Title(TEST), title_bottom(query.block, Title(TEST)))
CallTitlePosition == \E p \in Positions : Call("title_position", p, title_position(query.block, p))
CallTitleAlignment ==
    \E a \in Alignments : Call("title_alignment", a, title_alignment(query.block, a))

NextBuilder ==
    CallTitle \/ CallTitleTop \/ CallTitleBottom \/ CallTitlePosition \/ CallTitleAlignment

SpecBuilder == InitInner /\ [][NextBuilder]_vars

\* ------------------------------ SpecPadding: inner with any u16 padding
PadValues == {0, 1, MaxPad, U16Max - 1, U16Max}

AnyPaddings == [left : PadValues, right : PadValues, top : PadValues, bottom : PadValues]

PaddedBlocks ==
    { padding(borders(new, bs), pad) : bs \in {NONE, {LEFT}, {TOP, BOTTOM}, ALL}, pad \in AnyPaddings }

PaddedAreas == { Rect(x, 0, w, h) : x \in {0, 3}, w \in {0, 2, U16Max - 3}, h \in {1, U16Max} }

InnerPadded == ~query.asked /\ \E b \in PaddedBlocks, a \in PaddedAreas : InnerQuery(b, a)

NextPadding == InnerPadded

SpecPadding == InitInner /\ [][NextPadding]_vars

\* ------------------------------- SpecLayout: adjacent frames, merged edges
LayoutGrid == Rect(0, 0, 15, 5)

\* an all-edges frame of the table `set` merging the edges `m`
Merging(set, m) == merge_with(border_set(borders(new, ALL), set), m)

\* tests::render_merged_plain_border and its siblings
MergedLayout(set) ==
    << Frame(Merging(set, NONE), Rect(0, 0, 10, 5)),
       Frame(Merging(set, {LEFT}), Rect(10, 0, 5, 3)),
       Frame(Merging(set, {LEFT, TOP}), Rect(10, 3, 5, 2)) >>

\* tests::render_merged_with_cross, tests::render_merged_custom_set
CrossLayout(set) ==
    << Frame(Merging(set, NONE), Rect(0, 0, 10, 3)),
       Frame(Merging(set, {TOP}), Rect(0, 3, 10, 2)),
       Frame(Merging(set, {LEFT}), Rect(10, 0, 5, 3)),
       Frame(Merging(set, {LEFT, TOP}), Rect(10, 3, 5, 2)) >>

\* tests::render_merged_with_title, the titles 2, 3 and 4 aligned by `a`
TitledLayout(set, a) ==
    LET T(m, c) == title_alignment(title(Merging(set, m), Title(<<c>>)), a)
    IN  << Frame(title(Merging(set, NONE),
                       title_with_alignment(title_with_position(Title(<<"^", "1">>), "Bottom"),
                                            "Right")),
                 Rect(0, 0, 10, 3)),
           Frame(T({TOP}, "2"), Rect(0, 3, 10, 2)),
           Frame(T({LEFT}, "3"), Rect(10, 0, 5, 3)),
           Frame(T({LEFT, TOP}, "4"), Rect(10, 3, 5, 2)) >>

\* the area of extent n that begins right after a1 across the edge e of the
\* second frame, with the extent of a1 on the other axis
Adjacent(a1, e, n) ==
    CASE e = LEFT -> Rect(a1.x + a1.width, a1.y, n, a1.height)
      [] e = RIGHT -> Rect(a1.x - n, a1.y, n, a1.height)
      [] e = TOP -> Rect(a1.x, a1.y + a1.height, a1.width, n)
      [] e = BOTTOM -> Rect(a1.x, a1.y - n, a1.width, n)

\* an unmerged frame at a1, then a frame merging e at the adjacent area
PairLayout(set, a1, e, n) ==
    << Frame(Merging(set, NONE), a1), Frame(Merging(set, {e}), Adjacent(a1, e, n)) >>

PairAreas == { Rect(x, y, w, h) : x \in 2..3, y \in 2..3, w \in 2..MaxPairDim, h \in 2..MaxPairDim }

\* a grid that holds every pair of areas
PairGrid == Rect(0, 0, MaxPairDim + 5, MaxPairDim + 5)

Layouts ==
    { [grid |-> LayoutGrid, frames |-> MergedLayout(set)] : set \in Tables }
      \cup { [grid |-> LayoutGrid, frames |-> CrossLayout(set)] : set \in Tables }
      \cup { [grid |-> PairGrid, frames |-> PairLayout(set, a1, e, n)] :
                set \in Tables, a1 \in PairAreas, e \in ALL, n \in 1..2 }
      \cup { [grid |-> LayoutGrid, frames |-> TitledLayout(set, a)] :
                set \in Tables, a \in Alignments }

InitLayout == query = NoQuery /\ \E l \in Layouts : Start(l)

\* one of the frames of the layout not rendered yet, in any order
RenderLaidOut ==
    /\ ~paint.panicked
    /\ \E i \in 1..Len(layout.frames) :
          /\ \A k \in 1..Len(history) : history[k] # layout.frames[i]
          /\ RenderFrame(layout.frames[i])

NextLayout == RenderLaidOut

SpecLayout == InitLayout /\ [][NextLayout]_vars

\* ------------------------- SpecCorner: the merged corner, composed twice
CornerGrid == Rect(0, 0, 1, 1)
CornerCell == <<0, 0>>

\* the masks a corner can be asked to merge: the non-empty subsets of two
\* adjoining edges
CornerMasks == { m \in Borders : m # {} /\ m # {LEFT, RIGHT} /\ m # {TOP, BOTTOM}
                                 /\ Cardinality(m) <= 2 }

\* the glyphs of a table, a blank and a glyph of no table
Glyphs(set) == { set[Roles[i].role] : i \in 1..Len(Roles) } \cup {" ", "?"}

InitCorner ==
    /\ query = NoQuery
    /\ \E set \in Tables, m \in CornerMasks :
          \E g \in Glyphs(set) :
              /\ layout = [grid |-> CornerGrid, frames |-> << Frame(Merging(set, m), CornerGrid) >>,
                           symbol |-> g]
              /\ buf = [area |-> CornerGrid,
                        content |-> [p \in positions(CornerGrid) |->
                                       [symbol |-> g, style |-> "default"]]]
    /\ prev = buf.content
    /\ history = << >>
    /\ paint = NoPaint
    /\ calls = << >>

\* Block::render_merged_corner on the cell, with the mask of the frame
ComposeCorner ==
    /\ Len(history) < 2
    /\ LET f == layout.frames[1]
           r == render_merged_corner(f.block, PaintState(buf), CornerCell, f.block.merge_borders)
       IN  /\ buf' = [buf EXCEPT !.content = r.s.content]
           /\ prev' = buf.content
           /\ history' = Append(history, f)
           /\ paint' = [NoPaint EXCEPT !.written = r.s.written]
    /\ UNCHANGED <<layout, query, calls>>

NextCorner == ComposeCorner

SpecCorner == InitCorner /\ [][NextCorner]_vars

\* ------------------------ SpecPrior: one frame over a grid already drawn on
PriorKinds == {"blank", "foreign", "framed"}

\* what the grid holds before the call: nothing, a glyph of no table in every
\* cell, or a plain frame around the whole grid
PriorContent(kind) ==
    CASE kind = "blank" -> Buffer_empty(SmallGrid).content
      [] kind = "foreign" -> [p \in positions(SmallGrid) |-> [symbol |-> "?", style |-> "default"]]
      [] kind = "framed" -> render_ref(bordered, SmallGrid, Buffer_empty(SmallGrid)).content

OverBlocks ==
    { merge_with(borders(new, bs), ms) : bs \in Borders, ms \in Borders }
      \cup { border_style(style(merge_with(bordered, ms), "fill"), "edge") : ms \in Borders }

OverAreas == { Rect(x, y, w, h) : x \in 0..1, y \in 0..1, w \in {1, 2, GridW - 1}, h \in 1..2 }

InitPrior ==
    /\ query = NoQuery
    /\ \E kind \in PriorKinds :
          /\ layout = [grid |-> SmallGrid, frames |-> << >>, prior |-> kind]
          /\ buf = [area |-> SmallGrid, content |-> PriorContent(kind)]
    /\ prev = buf.content
    /\ history = << >>
    /\ paint = NoPaint
    /\ calls = << >>

RenderOver ==
    /\ history = << >>
    /\ \E b \in OverBlocks, a \in OverAreas : RenderFrame(Frame(b, a))

NextPrior == RenderOver

SpecPrior == InitPrior /\ [][NextPrior]_vars

\* ------------------------------------------------------------------ claims
symbol_at(x, y) == buf.content[<<x, y>>].symbol
inside(area, grid) == intersection(area, grid) = area

\* the frame of the last render call: all four edges, nothing merged, no title
PlainFrame ==
    /\ Rendered
    /\ Last.block.borders = ALL
    /\ Last.block.merge_borders = NONE
    /\ Last.block.titles = << >>
    /\ Last.area.width >= 2 /\ Last.area.height >= 2
    /\ inside(Last.area, buf.area)

\* C1: a frame with all four edges visible, no merged edge and no title,
\* rendered onto an area of width >= 2 and height >= 2 inside the grid, leaves
\* the four corner glyphs in the corner cells, the top (bottom) horizontal
\* glyph in the other cells of the top (bottom) row, the left (right) vertical
\* glyph in the other cells of the left (right) column and every interior
\* glyph unchanged; on the empty 15x3 buffer with the plain table the rows are
\* TL H*13 TR / V blank*13 V / BL H*13 BR.
C1_FrameOutline ==
    PlainFrame =>
        LET a == Last.area
            set == Last.block.border_set
            x0 == a.x
            x1 == a.x + a.width - 1
            y0 == a.y
            y1 == a.y + a.height - 1
        IN  /\ symbol_at(x0, y0) = set.top_left
            /\ symbol_at(x1, y0) = set.top_right
            /\ symbol_at(x0, y1) = set.bottom_left
            /\ symbol_at(x1, y1) = set.bottom_right
            /\ \A x \in (x0 + 1)..(x1 - 1) :
                  /\ symbol_at(x, y0) = set.horizontal_top
                  /\ symbol_at(x, y1) = set.horizontal_bottom
            /\ \A y \in (y0 + 1)..(y1 - 1) :
                  /\ symbol_at(x0, y) = set.vertical_left
                  /\ symbol_at(x1, y) = set.vertical_right
            /\ \A x \in (x0 + 1)..(x1 - 1), y \in (y0 + 1)..(y1 - 1) :
                  symbol_at(x, y) = prev[<<x, y>>].symbol
            /\ (a = Rect(0, 0, 15, 3) /\ set = PLAIN) =>
                  /\ [x \in 0..14 |-> symbol_at(x, 0)]
                       = [x \in 0..14 |-> IF x = 0 THEN "TL" ELSE IF x = 14 THEN "TR" ELSE "H"]
                  /\ [x \in 0..14 |-> symbol_at(x, 1)]
                       = [x \in 0..14 |-> IF x \in {0, 14} THEN "V" ELSE " "]
                  /\ [x \in 0..14 |-> symbol_at(x, 2)]
                       = [x \in 0..14 |-> IF x = 0 THEN "BL" ELSE IF x = 14 THEN "BR" ELSE "H"]

C1_Witness ==
    /\ PlainFrame
    /\ Last.area = Rect(0, 0, 15, 3)
    /\ Last.block.border_set = PLAIN
    /\ symbol_at(14, 2) = "BR"

\* the trace entries of title i of the last render call
title_entries(i) == { k \in 1..Len(paint.titles) : paint.titles[k].index = i }

\* the cells of trace entry k that no later title of the call painted over
uncovered(k) ==
    positions(paint.titles[k].area)
      \ UNION { positions(paint.titles[j].area) : j \in (k + 1)..Len(paint.titles) }

\* the title row of position p as the claim gives it, on the area the frame
\* paints, and the place of the one title i of width t on it
C2_Placed(b, pa, p, al, i) ==
    LET L == left(pa) + (IF LEFT \in b.borders THEN 1 ELSE 0)
        R == right(pa) - (IF RIGHT \in b.borders THEN 1 ELSE 0)
        W == R - L
        t == title_width(b.titles[i])
        row == IF p = "Top" THEN top(pa) ELSE bottom(pa) - 1
        start == CASE al = "Left" -> L
                   [] al = "Right" -> R - t
                   [] al = "Center" -> L + ((W - t) \div 2)
    IN  (t <= W /\ W >= 1) =>
            /\ \E k \in title_entries(i) :
                  /\ title_entries(i) = {k}
                  /\ paint.titles[k].area = Rect(start, row, t, 1)
                  /\ \A c \in uncovered(k) :
                        buf.content[c].symbol = b.titles[i].content[c[1] - start + 1]

\* C2: on the title row with left column L = area.left + (1 if Left is
\* visible), right bound R = area.right - (1 if Right is visible) and width
\* W = R - L of the area the frame paints, the only title of its alignment at
\* a position, of width t <= W, is painted in [L, L+t) when Left, in [R-t, R)
\* when Right and from L + floor((W-t)/2) when Center, on the top row for Top
\* and the bottom row for Bottom; the bordered 15x3 frame shows A and D in
\* column 1, B and E in column 7, C and F in column 13, and the borderless 8x1
\* frame shows "test" in columns 0-3, 2-5 and 4-7.
C2_SingleTitlePlacement ==
    Rendered =>
        LET b == Last.block
            pa == paint_area(b, Last.area, [area |-> buf.area, content |-> prev])
        IN  /\ ~is_empty(pa) =>
                 \A p \in Positions, al \in Alignments :
                     LET ts == filtered_titles(b, p, al)
                     IN  Len(ts) = 1 => C2_Placed(b, pa, p, al, ts[1])
            /\ (b = SixTitles /\ Last.area = Rect(0, 0, 15, 3)) =>
                 /\ symbol_at(1, 0) = "A" /\ symbol_at(7, 0) = "B" /\ symbol_at(13, 0) = "C"
                 /\ symbol_at(1, 2) = "D" /\ symbol_at(7, 2) = "E" /\ symbol_at(13, 2) = "F"
            /\ \A al \in Alignments :
                 (b = title_alignment(title(new, Title(TEST)), al) /\ Last.area = Rect(0, 0, 8, 1)) =>
                     LET x0 == CASE al = "Left" -> 0 [] al = "Center" -> 2 [] al = "Right" -> 4
                     IN  [x \in 0..7 |-> symbol_at(x, 0)]
                           = [x \in 0..7 |-> IF x \in x0..(x0 + 3) THEN TEST[x - x0 + 1] ELSE " "]

C2_Witness ==
    /\ Rendered
    /\ Last.block = SixTitles
    /\ Last.area = Rect(0, 0, 15, 3)
    /\ Len(paint.titles) = 6
    /\ symbol_at(7, 2) = "E"

\* C9: no border glyph and no title glyph written by render(frame, area)
\* lands in a cell of inner(frame, area), for every combination of visible
\* edges, merged edges, titles and padding, areas at row 0 or column 0 of the
\* grid with Top or Left merged included.
C9_NoPaintInsideInner ==
    history # << >> => paint.written \cap positions(inner(Last.block, Last.area)) = {}

\* ----------------------------------------------------- claims about inner
flag(cond) == IF cond THEN 1 ELSE 0

\* C6: with zero padding, no title and no merged edge, inner of (x, y, w, h)
\* for the visible edges B is (x + l, y + t, max(0, w - [Left in B] - [Right
\* in B]), max(0, h - [Top in B] - [Bottom in B])), l = 1 iff Left in B and
\* w >= 1, t = 1 iff Top in B and h >= 1; all four borders on the 1x1 and the
\* 2x2 area at the origin give (1, 1, 0, 0).
C6_InnerOfBorders ==
    (/\ query.asked
     /\ query.block.padding = PaddingZero
     /\ query.block.titles = << >>
     /\ query.block.merge_borders = NONE) =>
        LET a == query.area
            B == query.block.borders
            l == flag(LEFT \in B /\ a.width >= 1)
            t == flag(TOP \in B /\ a.height >= 1)
        IN  /\ query.result =
                 Rect(a.x + l, a.y + t,
                      Max(0, a.width - flag(LEFT \in B) - flag(RIGHT \in B)),
                      Max(0, a.height - flag(TOP \in B) - flag(BOTTOM \in B)))
            /\ (B = ALL /\ a \in {Rect(0, 0, 1, 1), Rect(0, 0, 2, 2)}) =>
                 query.result = Rect(1, 1, 0, 0)

C6_Witness ==
    /\ query.asked
    /\ query.block = bordered
    /\ query.area = Rect(0, 0, 2, 2)
    /\ query.result = Rect(1, 1, 0, 0)

\* a title of the block resolves to the position p
resolves_to(b, p) ==
    \E i \in 1..Len(b.titles) :
        \/ b.titles[i].position = p
        \/ b.titles[i].position = "None" /\ b.titles_position = p

\* C7: inner insets the top by exactly one row, never two, if and only if
\* (Top is visible or a title resolves to Top) and Top is not merged, and the
\* bottom likewise for Bottom; a borderless frame with one Top title on a
\* 1-wide, 1-tall area at (x, y) gives (x, y+1, 1, 0), and a Top title with a
\* Top border on a 2-tall area leaves height 1.
C7_TitleOrBorderInsetsOnce ==
    query.asked =>
        LET a == query.area
            b == query.block
            insetT == flag((TOP \in b.borders \/ resolves_to(b, "Top"))
                             /\ TOP \notin b.merge_borders)
            insetB == flag((BOTTOM \in b.borders \/ resolves_to(b, "Bottom"))
                             /\ BOTTOM \notin b.merge_borders)
        IN  /\ query.result.y = a.y + flag(insetT = 1 /\ a.height >= 1) + b.padding.top
            /\ query.result.height =
                 Max(0, a.height - insetT - insetB - b.padding.top - b.padding.bottom)
            /\ (/\ b.borders = NONE /\ b.merge_borders = NONE /\ b.padding = PaddingZero
                /\ Len(b.titles) = 1 /\ resolves_to(b, "Top")
                /\ a.width = 1 /\ a.height = 1) =>
                 query.result = Rect(a.x, a.y + 1, 1, 0)
            /\ (/\ b.borders = {TOP} /\ b.merge_borders = NONE /\ b.padding = PaddingZero
                /\ resolves_to(b, "Top") /\ ~resolves_to(b, "Bottom")
                /\ a.height = 2) =>
                 query.result.height = 1

C7_Witness ==
    /\ query.asked
    /\ query.block = title(new, Title(<<"T">>))
    /\ query.area = Rect(1, 1, 1, 1)
    /\ query.result = Rect(1, 2, 1, 0)

\* C8: a merged edge causes no inset on its side, even when the edge is
\* visible and even when a title occupies the side; the all-edges frame at
\* (1,1,5,5) gives (1,2,4,3) merging Left, (2,1,3,4) merging Top with or
\* without a Top title, (2,2,4,3) merging Right and (2,2,3,4) merging Bottom
\* with or without a title.
C8_MergedEdgeNotInset ==
    query.asked =>
        LET a == query.area
            b == query.block
            M == b.merge_borders
            r == query.result
            pad == b.padding
            T == title(b, Title(<<"T">>))
        IN  /\ LEFT \in M => r.x = a.x + pad.left
            /\ TOP \in M => r.y = a.y + pad.top
            /\ {LEFT, RIGHT} \subseteq M => r.width = Max(0, a.width - pad.left - pad.right)
            /\ {TOP, BOTTOM} \subseteq M => r.height = Max(0, a.height - pad.top - pad.bottom)
            /\ (a = Rect(1, 1, 5, 5) /\ pad = PaddingZero /\ b.borders = ALL
                /\ b.titles_position = "Top") =>
                 /\ (M = {LEFT} /\ b.titles = << >>) => r = Rect(1, 2, 4, 3)
                 /\ (M = {TOP} /\ b.titles \in {<< >>, T.titles}) => r = Rect(2, 1, 3, 4)
                 /\ (M = {RIGHT} /\ b.titles = << >>) => r = Rect(2, 2, 4, 3)
                 /\ (M = {BOTTOM} /\ b.titles \in {<< >>, T.titles}) => r = Rect(2, 2, 3, 4)

C8_Witness ==
    /\ query.asked
    /\ query.block = title(merge_with(bordered, {TOP}), Title(<<"T">>))
    /\ query.area = Rect(1, 1, 5, 5)
    /\ query.result = Rect(2, 1, 3, 4)

\* C10: adding one more visible edge to a frame, or one more title, never
\* increases the width or the height of inner(area), for every area, padding
\* and set of merged edges.
C10_InnerMonotone ==
    query.asked =>
        /\ \A e \in ALL :
              LET more == inner(borders(query.block, query.block.borders \cup {e}), query.area)
              IN  more.width <= query.result.width /\ more.height <= query.result.height
        /\ \A t \in InnerTitleKinds :
              LET more == inner(title(query.block, t), query.area)
              IN  more.width <= query.result.width /\ more.height <= query.result.height

C10_Witness ==
    /\ query.asked
    /\ query.result.width = 0
    /\ query.result.height >= 1
    /\ LEFT \notin query.block.borders
    /\ \E t \in InnerTitleKinds :
          inner(title(query.block, t), query.area).height < query.result.height

\* --------------------------------------------- claims about merged frames
\* C3: on the empty 15x5 grid, the plain all-edges frame at (0,0,10,5), then
\* the one merging Left at (10,0,5,3), then the one merging Left+Top at
\* (10,3,5,2) leave column 9 holding the T-down junction in row 0, the
\* vertical glyph in rows 1 and 3, the junction opening to the right in row 2
\* and the T-up junction in row 4, cell (14,2) holding the junction opening to
\* the left, and no vertical glyph in column 10.
C3_MergedPlainBorder ==
    (layout.frames = MergedLayout(PLAIN) /\ history = layout.frames) =>
        /\ symbol_at(9, 0) = "TD"
        /\ symbol_at(9, 1) = "V" /\ symbol_at(9, 3) = "V"
        /\ symbol_at(9, 2) = "JR"
        /\ symbol_at(9, 4) = "TU"
        /\ symbol_at(14, 2) = "JL"
        /\ \A y \in 0..4 : symbol_at(10, y) # "V"

C3_Witness ==
    /\ layout.frames = MergedLayout(PLAIN)
    /\ history = layout.frames
    /\ ~paint.panicked
    /\ symbol_at(9, 2) = "JR"

\* C5: on the empty 15x5 grid, four all-edges frames of one table at
\* (0,0,10,3) unmerged, (0,3,10,2) merging Top, (10,0,5,3) merging Left and
\* (10,3,5,2) merging Left+Top, in this order, leave the cross in (9,2), the
\* T-right junction in (0,2), the T-left junction in (14,2), the T-down
\* junction in (9,0) and the T-up junction in (9,4); the outer corners keep
\* the plain corner glyphs and the other cells of row 2 the bottom-horizontal
\* glyph of the first frame.
C5_MergedWithCross ==
    \A set \in Tables :
        (layout.frames = CrossLayout(set) /\ history = layout.frames) =>
            /\ symbol_at(9, 2) = set.cross
            /\ symbol_at(0, 2) = set.vertical_t_right
            /\ symbol_at(14, 2) = set.vertical_t_left
            /\ symbol_at(9, 0) = set.horizontal_t_down
            /\ symbol_at(9, 4) = set.horizontal_t_up
            /\ symbol_at(0, 0) = set.top_left /\ symbol_at(14, 0) = set.top_right
            /\ symbol_at(0, 4) = set.bottom_left /\ symbol_at(14, 4) = set.bottom_right
            /\ \A x \in (1..13) \ {9} : symbol_at(x, 2) = set.horizontal_bottom

C5_Witness ==
    /\ layout.frames = CrossLayout(CUSTOM)
    /\ history = layout.frames
    /\ ~paint.panicked
    /\ symbol_at(9, 2) = "C"

\* the glyph an all-edges frame of the table `set` drawn alone at the area r
\* (at least 2x2) shows in the cell c of its outline
on_outline(r, c) ==
    /\ c \in positions(r)
    /\ c[1] \in {r.x, r.x + r.width - 1} \/ c[2] \in {r.y, r.y + r.height - 1}

outline_glyph(set, r, c) ==
    LET first_col == c[1] = r.x
        last_col == c[1] = r.x + r.width - 1
        first_row == c[2] = r.y
        last_row == c[2] = r.y + r.height - 1
    IN  CASE first_col /\ first_row -> set.top_left
          [] last_col /\ first_row -> set.top_right
          [] first_col /\ last_row -> set.bottom_left
          [] last_col /\ last_row -> set.bottom_right
          [] first_row -> set.horizontal_top
          [] last_row -> set.horizontal_bottom
          [] first_col -> set.vertical_left
          [] OTHER -> set.vertical_right

\* the second area with the shared line added to it
with_shared_line(a2, e) ==
    CASE e = LEFT -> Rect(a2.x - 1, a2.y, a2.width + 1, a2.height)
      [] e = RIGHT -> Rect(a2.x, a2.y, a2.width + 1, a2.height)
      [] e = TOP -> Rect(a2.x, a2.y - 1, a2.width, a2.height + 1)
      [] e = BOTTOM -> Rect(a2.x, a2.y, a2.width, a2.height + 1)

\* the cells of the line the two frames share: the edge of a1 that faces a2
shared_line(a1, e) ==
    CASE e = LEFT -> positions(Rect(a1.x + a1.width - 1, a1.y, 1, a1.height))
      [] e = RIGHT -> positions(Rect(a1.x, a1.y, 1, a1.height))
      [] e = TOP -> positions(Rect(a1.x, a1.y + a1.height - 1, a1.width, 1))
      [] e = BOTTOM -> positions(Rect(a1.x, a1.y, a1.width, 1))

\* the composition of the two frames with one border line between them: each
\* outline as drawn alone, the shared line that of the first frame, and a
\* three-way junction where the shared line meets the outer outline
composition(set, a1, e, a2, c) ==
    LET whole == with_shared_line(a2, e)
        ends == { d \in shared_line(a1, e) : on_outline(a1, d) /\
                    (IF e \in {LEFT, RIGHT} THEN d[2] \in {a1.y, a1.y + a1.height - 1}
                                            ELSE d[1] \in {a1.x, a1.x + a1.width - 1}) }
    IN  IF c \in ends
        THEN IF e \in {LEFT, RIGHT}
             THEN (IF c[2] = a1.y THEN set.horizontal_t_down ELSE set.horizontal_t_up)
             ELSE (IF c[1] = a1.x THEN set.vertical_t_right ELSE set.vertical_t_left)
        ELSE IF on_outline(a1, c) THEN outline_glyph(set, a1, c)
        ELSE IF on_outline(whole, c) THEN outline_glyph(set, whole, c)
        ELSE " "

\* the state after the first frame and then the merging frame of a pair
PairRendered ==
    /\ Len(layout.frames) = 2
    /\ history = layout.frames
    /\ ~paint.panicked
    /\ layout.frames[1].block.merge_borders = NONE
    /\ Cardinality(layout.frames[2].block.merge_borders) = 1

merged_edge == CHOOSE e \in ALL : e \in layout.frames[2].block.merge_borders

PairIsComposition ==
    LET set == layout.frames[1].block.border_set
        a1 == layout.frames[1].area
        a2 == layout.frames[2].area
    IN  /\ \A c \in DOMAIN buf.content :
              buf.content[c].symbol = composition(set, a1, merged_edge, a2, c)
        /\ \A c \in shared_line(a1, merged_edge) : buf.content[c].symbol # " "

\* no junction glyph of the table is blank and every corner glyph is looked
\* up as its own corner
resolvable(set) ==
    /\ \A r \in {"vertical_t_left", "vertical_t_right", "horizontal_t_down",
                 "horizontal_t_up", "cross"} : set[r] # " "
    /\ \A i \in 1..4 : line_parts_from_symbol(set, set[Roles[i].role]).parts = Roles[i].parts

after_insets(n, a, b) == Max(0, n - flag(a) - flag(b))

\* C11: for every padding of four unsigned 16-bit insets, inner never fails
\* and subtracts the padding after the border and title insets with
\* saturation and without wrap-around: the width is max(0, w' - left - right)
\* and the height max(0, h' - top - bottom), w' and h' being the sizes after
\* the border and title insets, also when left + right exceeds 65535.
C11_PaddingSaturates ==
    query.asked =>
        LET b == query.block
            w1 == after_insets(query.area.width, left_inset(b), right_inset(b))
            h1 == after_insets(query.area.height, top_inset(b), bottom_inset(b))
        IN  /\ ~query.panicked
            /\ query.result.width = Max(0, w1 - b.padding.left - b.padding.right)
            /\ query.result.height = Max(0, h1 - b.padding.top - b.padding.bottom)

\* the calls that add a title, in order, and the last default set by a call
\* of the kind `op` (or the default of Block::new)
title_calls == SelectSeq(calls, LAMBDA c : c.op \in {"title", "title_top", "title_bottom"})

last_default(op, initial) ==
    LET set == { k \in 1..Len(calls) : calls[k].op = op }
    IN  IF set = {} THEN initial ELSE calls[CHOOSE k \in set : \A j \in set : j <= k].arg

\* the position and the alignment the k-th added title is declared to have
declared_position(k) ==
    LET c == title_calls[k]
    IN  CASE c.op = "title_top" -> "Top"
          [] c.op = "title_bottom" -> "Bottom"
          [] c.arg.position # "None" -> c.arg.position
          [] OTHER -> last_default("title_position", "Top")

declared_alignment(k) ==
    LET c == title_calls[k]
    IN  IF c.arg.alignment # "None" THEN c.arg.alignment
        ELSE last_default("title_alignment", "Left")

\* C12: a title resolves to its own explicit position (alignment) when set
\* and otherwise to the frame default in force when the frame is queried,
\* whatever the order of the builder calls: a default set after the title was
\* added applies to it, an explicit value is unaffected by any default, and a
\* position is occupied if and only if some title resolves to it.
C12_ResolvedAtQuery ==
    LET b == query.block
        n == Len(title_calls)
    IN  /\ Len(b.titles) = n
        /\ \A p \in Positions :
              have_title_at_position(b, p) <=> \E k \in 1..n : declared_position(k) = p
        /\ \A p \in Positions, a \in Alignments :
              filtered_titles(b, p, a)
                = SelectSeq([k \in 1..n |-> k],
                            LAMBDA k : declared_position(k) = p /\ declared_alignment(k) = a)

\* tests::have_title_at_position_takes_into_account_all_positioning_declarations
C12_Witness ==
    /\ calls = << [op |-> "title", arg |-> title_with_position(Title(TEST), "Top")],
                  [op |-> "title", arg |-> Title(TEST)],
                  [op |-> "title_position", arg |-> "Bottom"] >>
    /\ have_title_at_position(query.block, "Top")
    /\ have_title_at_position(query.block, "Bottom")

\* the sum of the display widths of the titles b.titles[ts[k..]]
RECURSIVE widths_from(_, _, _)
widths_from(b, ts, k) ==
    IF k > Len(ts) THEN 0 ELSE Len(b.titles[ts[k]].content) + widths_from(b, ts, k + 1)

\* the title row of position p on the paint area pa: [L, R) on the row `row`
title_row(b, pa, p) ==
    LET L == left(pa) + flag(LEFT \in b.borders)
        R == right(pa) - flag(RIGHT \in b.borders)
    IN  [L |-> L, R |-> R, W |-> Max(0, R - L),
         row |-> IF p = "Top" THEN top(pa) ELSE bottom(pa) - 1]

\* the paint area of the last render call
LastPaintArea == paint_area(Last.block, Last.area, [area |-> buf.area, content |-> prev])

\* the trace entries of the centre pass at position p of the last render call
center_entries(p) ==
    { k \in 1..Len(paint.titles) :
        /\ paint.titles[k].pass = "Center"
        /\ resolved_position(Last.block, Last.block.titles[paint.titles[k].index]) = p }

\* C13: the centred titles at a position start at row-left +
\* floor(max(0, W - total)/2), W being the full width of the title row and
\* total the sum of their display widths plus one separator between
\* consecutive ones, whatever left-aligned or right-aligned titles exist at
\* that position and however much width they consumed.
C13_CenterStart ==
    (Rendered /\ ~is_empty(LastPaintArea)) =>
        \A p \in Positions :
            LET b == Last.block
                ts == filtered_titles(b, p, "Center")
                r == title_row(b, LastPaintArea, p)
                total == IF ts = << >> THEN 0 ELSE widths_from(b, ts, 1) + Len(ts) - 1
                start == r.L + (Max(0, r.W - total) \div 2)
            IN  (ts # << >> /\ r.W >= 1) =>
                    /\ center_entries(p) # {}
                    /\ LET first == CHOOSE k \in center_entries(p) :
                                        \A j \in center_entries(p) : k <= j
                       IN  /\ paint.titles[first].index = ts[1]
                           /\ paint.titles[first].area.x = start
                           /\ paint.titles[first].area.y = r.row

C13_Witness ==
    /\ Rendered
    /\ Last.area = Rect(0, 0, 4, 1)
    /\ buf.area = SmallGrid
    /\ Last.block.borders = NONE
    /\ Len(Last.block.titles) = 2
    /\ filtered_titles(Last.block, "Top", "Center") = <<2>>
    /\ filtered_titles(Last.block, "Top", "Left") = <<1>>
    /\ \E k \in center_entries("Top") : paint.titles[k].area.x = 1

C15_RenderNeverFails == history # << >> => ~paint.panicked

\* C16: rendering onto a zero-area rectangle (width 0 or height 0) is a
\* no-op: no cell of the grid changes in glyph or style, for every
\* combination of visible edges, merged edges and titles.
C16_EmptyAreaNoOp == (history # << >> /\ is_empty(Last.area)) => buf.content = prev

\* the four corner cells of the area r with the two edges that meet there
corners(r) ==
    { [cell |-> <<left(r), top(r)>>, edges |-> {LEFT, TOP}],
      [cell |-> <<right(r) - 1, top(r)>>, edges |-> {RIGHT, TOP}],
      [cell |-> <<left(r), bottom(r) - 1>>, edges |-> {LEFT, BOTTOM}],
      [cell |-> <<right(r) - 1, bottom(r) - 1>>, edges |-> {RIGHT, BOTTOM}] }

\* the last render call painted a frame without titles on an area of at
\* least 2x2 cells, so that its four corner cells are distinct
FourCorners ==
    /\ Rendered
    /\ Last.block.titles = << >>
    /\ LastPaintArea.width >= 2 /\ LastPaintArea.height >= 2

\* C17: when the merge mask at a corner is not empty and the glyph in that
\* corner cell cannot be looked up in the symbol table of the frame, the
\* render call leaves the glyph of the cell untouched, whatever the visible
\* edges are.
C17_UnresolvedCornerUntouched ==
    FourCorners =>
        \A c \in corners(LastPaintArea) :
            (/\ Last.block.merge_borders \cap c.edges # {}
             /\ ~line_parts_from_symbol(Last.block.border_set, prev[c.cell].symbol).some)
                => buf.content[c.cell].symbol = prev[c.cell].symbol

\* C18: corner compositing is idempotent: for each corner, each non-empty
\* subset of its two edges as merge mask and each glyph of the symbol table,
\* composing twice with the same mask leaves the glyph that composing once
\* leaves.
C18_CornerIdempotent ==
    Len(history) = 2 => buf.content[CornerCell].symbol = prev[CornerCell].symbol

\* the top-right corner of the plain table merged with Left became the
\* T-down junction and stays it
C18_Witness ==
    /\ Len(history) = 2
    /\ layout.frames[1].block.border_set = PLAIN
    /\ layout.frames[1].block.merge_borders = {LEFT}
    /\ layout.symbol = "TR"
    /\ buf.content[CornerCell].symbol = "TD"

\* the glyphs the last frame leaves on the grid that was blank before
OnBlankGrid == render_ref(Last.block, Last.area, Buffer_empty(buf.area)).content

\* the cell c of the outline of the area r lies on one of the edges `es`
on_edge(r, c, es) ==
    \/ LEFT \in es /\ c[1] = left(r)
    \/ RIGHT \in es /\ c[1] = right(r) - 1
    \/ TOP \in es /\ c[2] = top(r)
    \/ BOTTOM \in es /\ c[2] = bottom(r) - 1

\* C19 as stated: two grids that differ in their prior content hold, after
\* the same frame is rendered at the same area, the same glyph in every
\* border cell (edge and corner cells of the paint area), for every set of
\* visible and merged edges.
C19_AnyEdges ==
    Rendered =>
        \A c \in positions(LastPaintArea) :
            on_edge(LastPaintArea, c, ALL) => buf.content[c].symbol = OnBlankGrid[c].symbol

\* C19 amended: for a frame with no merged edge, the same glyph in every
\* border cell that lies on a visible edge, for every set of visible edges.
C19_VisibleUnmergedEdges ==
    (Rendered /\ Last.block.merge_borders = NONE) =>
        \A c \in positions(LastPaintArea) :
            on_edge(LastPaintArea, c, Last.block.borders)
                => buf.content[c].symbol = OnBlankGrid[c].symbol

C19_Witness ==
    /\ Rendered
    /\ layout.prior = "foreign"
    /\ Last.block.merge_borders = NONE
    /\ Last.block.borders = {LEFT}
    /\ Last.area = Rect(1, 1, 2, 2)
    /\ buf.content[<<1, 1>>].symbol = "V"
    /\ buf.content[<<2, 1>>].symbol = "?"

\* C20: the paint area is the requested area grown by one toward each
\* merged edge: Left (Top) merged moves the origin x (y) back by one, Right
\* (Bottom) merged moves the right (bottom) bound out by one, for every
\* area, those with x or y equal to 0 included, so the paint area never
\* extends past the requested area on a side that is not merged.
C20_GrowsTowardMergedEdges ==
    history # << >> =>
        LET a == Last.area
            m == Last.block.merge_borders
            c == compensate_area_rect(Last.block, a)
        IN  /\ (LEFT \in m /\ a.x >= 1) => left(c) = left(a) - 1
            /\ (TOP \in m /\ a.y >= 1) => top(c) = top(a) - 1
            /\ LEFT \notin m => left(c) = left(a)
            /\ TOP \notin m => top(c) = top(a)
            /\ right(c) = right(a) + flag(RIGHT \in m)
            /\ bottom(c) = bottom(a) + flag(BOTTOM \in m)

\* directions_of: Top to Up, Bottom to Down, Left to Left, Right to Right
directions_of(edges) ==
    LET dir == [e \in ALL |-> CASE e = TOP -> "UP" [] e = BOTTOM -> "DOWN"
                                [] e = LEFT -> "LEFT" [] e = RIGHT -> "RIGHT"]
    IN  { dir[e] : e \in edges }

\* C21: the merged-corner composition writes forward_lookup(reverse_lookup(
\* existing glyph) union directions_of(merge mask)), the merge mask being the
\* merged edges intersected with the two edges meeting at the corner; the
\* composed glyph is written with the edge style and the plain-corner rule is
\* then not applied.
C21_MergedCornerComposition ==
    FourCorners =>
        \A c \in corners(LastPaintArea) :
            LET b == Last.block
                mask == b.merge_borders \cap c.edges
                found == line_parts_from_symbol(b.border_set, prev[c.cell].symbol)
            IN  (mask # {} /\ found.some) =>
                    buf.content[c.cell] =
                        [symbol |-> symbol_from_line_parts(b.border_set,
                                        found.parts \cup directions_of(mask)),
                         style |-> patch(patch(prev[c.cell].style, b.style), b.border_style)]

\* an all-edges frame with the edge style, merging Left, beside the left
\* edge of a frame already drawn: the vertical glyph becomes a junction
C21_Witness ==
    /\ FourCorners
    /\ layout.prior = "framed"
    /\ Last.block.borders = ALL
    /\ Last.block.merge_borders = {LEFT}
    /\ Last.block.border_style = "edge"
    /\ Last.area = Rect(1, 1, 2, 2)
    /\ prev[<<0, 1>>].symbol = "V"
    /\ buf.content[<<0, 1>>] = [symbol |-> "JR", style |-> "edge"]

\* every title of the last render call is painted on the title row of the
\* rectangle pa, and the first left-aligned title of each position begins at
\* the left end of that row
titles_on_row_of(pa) ==
    LET b == Last.block
    IN  /\ \A k \in 1..Len(paint.titles) :
              LET e == paint.titles[k].area
                  r == title_row(b, pa, resolved_position(b, b.titles[paint.titles[k].index]))
              IN  e.y = r.row /\ r.L <= e.x /\ e.x + e.width <= r.R
        /\ \A p \in Positions :
              LET ts == filtered_titles(b, p, "Left")
                  r == title_row(b, pa, p)
              IN  (ts # << >> /\ r.W >= 1) =>
                      \E k \in 1..Len(paint.titles) :
                          /\ paint.titles[k].index = ts[1]
                          /\ paint.titles[k].area.x = r.L
                          /\ paint.titles[k].area.y = r.row

\* C22 as stated: the title row rectangle is taken from the original
\* requested area, not from the merge-expanded paint area: with Top merged
\* the Top titles are painted on the requested area's own top row, with Left
\* merged the row's left column is the requested area's left edge (plus one
\* if Left is visible).
C22_TitleRowOfRequestedArea == Rendered => titles_on_row_of(Last.area)

\* C22 amended: the title row rectangle is taken from the merge-expanded
\* paint area: with Top merged the Top titles are painted on the top row of
\* the paint area, the line shared with the neighbour above, and with Left
\* merged the row's left column is the paint area's left edge (plus one if
\* Left is visible).
C22_TitleRowOfPaintArea == Rendered => titles_on_row_of(LastPaintArea)

\* the frame 2 of tests::render_merged_with_title shows its title on row 2,
\* the bottom line of the frame above it
C22_Witness ==
    /\ Rendered
    /\ layout.frames = TitledLayout(PLAIN, "Left")
    /\ Last = layout.frames[2]
    /\ Last.area.y = 3
    /\ \E k \in 1..Len(paint.titles) : paint.titles[k].area = Rect(1, 2, 1, 1)
    /\ symbol_at(1, 2) = "2"

\* C23: no edge painter of a frame writes a corner cell that the merge
\* logic owns: when Left (Right) is merged the top and bottom edge painters
\* never write the leftmost (rightmost) column of the paint area, and when
\* Top (Bottom) is merged the left and right edge painters never write the
\* top (bottom) row, so for every non-empty paint area the glyph read back by
\* a corner whose merge mask is non-empty is the glyph the grid held before
\* this render call.
C23_MergedCornerReadsPriorGlyph ==
    (Rendered /\ ~is_empty(LastPaintArea)) =>
        LET pa == LastPaintArea
            m == Last.block.merge_borders
            rows == paint.sides[TOP] \cup paint.sides[BOTTOM]
            columns == paint.sides[LEFT] \cup paint.sides[RIGHT]
        IN  /\ LEFT \in m => \A c \in rows : c[1] # left(pa)
            /\ RIGHT \in m => \A c \in rows : c[1] # right(pa) - 1
            /\ TOP \in m => \A c \in columns : c[2] # top(pa)
            /\ BOTTOM \in m => \A c \in columns : c[2] # bottom(pa) - 1
            /\ \A k \in 1..Len(paint.corners) :
                  paint.corners[k].mask # {} =>
                      paint.corners[k].read = prev[paint.corners[k].cell].symbol

\* the position of the title of the k-th trace entry of the last render call
entry_position(k) == resolved_position(Last.block, Last.block.titles[paint.titles[k].index])

\* the rank of a pass in the precedence left over centre over right
pass_rank(pass) == CASE pass = "Right" -> 1 [] pass = "Center" -> 2 [] pass = "Left" -> 3

\* the glyph the title of the k-th trace entry shows in the cell c of its
\* paint rectangle
entry_glyph(k, c) == Last.block.titles[paint.titles[k].index].content[c[1] - paint.titles[k].area.x + 1]

\* C24: for each position the three title passes run in the fixed order
\* right-aligned, then centred, then left-aligned, after all edges and
\* corners are painted; when titles of different alignments overflow and
\* cover the same cell, the cell finally shows the left-aligned title in
\* preference to the centred one and the centred one in preference to the
\* right-aligned one, and every title cell overrides the border glyph
\* beneath it.
C24_TitlePassOrder ==
    Rendered =>
        LET n == Len(paint.titles)
            covers(k, c) == c \in positions(paint.titles[k].area)
        IN  /\ \A j \in 1..n : \A k \in j..n :
                  entry_position(j) = entry_position(k) =>
                      pass_rank(paint.titles[j].pass) <= pass_rank(paint.titles[k].pass)
            /\ \A p \in Positions : \A c \in DOMAIN buf.content :
                  LET here == { k \in 1..n : entry_position(k) = p /\ covers(k, c) }
                      other == { k \in 1..n : entry_position(k) # p /\ covers(k, c) }
                  IN  (here # {} /\ other = {}) =>
                          \E k \in here :
                              /\ \A j \in here \ {k} :
                                    pass_rank(paint.titles[j].pass) < pass_rank(paint.titles[k].pass)
                              /\ buf.content[c].symbol = entry_glyph(k, c)

\* a left-aligned and a right-aligned title on the two-cell row of an
\* all-edges frame: the row shows the left-aligned one over the top edge
C24_Witness ==
    /\ Rendered
    /\ Last.block.borders = ALL
    /\ Last.area = Rect(0, 0, 4, 2)
    /\ Len(paint.titles) = 2
    /\ paint.titles[1].pass = "Right" /\ paint.titles[2].pass = "Left"
    /\ paint.titles[1].area = Rect(1, 0, 2, 1) /\ paint.titles[2].area = Rect(1, 0, 2, 1)
    /\ symbol_at(1, 0) = "l" /\ symbol_at(2, 0) = "m"
    /\ symbol_at(0, 0) = "TL" /\ symbol_at(3, 0) = "TR"

\* the places of the right-aligned titles ts[k], ts[k-1], ... against the
\* band of width W anchored at the column L
RECURSIVE right_places(_, _, _, _, _)
right_places(b, ts, k, L, W) ==
    IF k = 0 \/ W = 0 THEN << >>
    ELSE LET w == Len(b.titles[ts[k]].content)
         IN  << [index |-> ts[k], x |-> Max(L + W - w, L), width |-> Min(w, W)] >>
               \o right_places(b, ts, k - 1, L, Max(0, W - w - 1))

\* the trace entries of the pass `pass` at the position p, in paint order
pass_entries(p, pass) ==
    LET b == Last.block
        mine(e) == e.pass = pass /\ resolved_position(b, b.titles[e.index]) = p
    IN  SelectSeq(paint.titles, mine)

\* C25: right-aligned titles at a position are processed in reverse
\* declaration order against a band anchored at the row's left edge: the
\* last-declared title is flush with the row's right edge, each earlier one
\* is placed to its left at max(band right - width, band left) with paint
\* width min(width, band width), the band then shrinks by width + 1
\* saturating at zero, and the pass stops when the band is empty; so titles
\* that fit appear left to right in declaration order with exactly one cell
\* between neighbours that the title pass does not write.
C25_RightTitlesBand ==
    (Rendered /\ ~is_empty(LastPaintArea)) =>
        \A p \in Positions :
            LET b == Last.block
                ts == filtered_titles(b, p, "Right")
                r == title_row(b, LastPaintArea, p)
                got == pass_entries(p, "Right")
                want == right_places(b, ts, Len(ts), r.L, r.W)
            IN  /\ Len(got) = Len(want)
                /\ \A i \in 1..Len(got) :
                      /\ got[i].index = want[i].index
                      /\ got[i].area = Rect(want[i].x, r.row, want[i].width, 1)
                /\ got # << >> => got[1].index = ts[Len(ts)] /\ right(got[1].area) = r.R
                /\ \A i \in 1..(Len(got) - 1) :
                      /\ got[i + 1].index < got[i].index
                      /\ got[i + 1].area.width = Len(b.titles[got[i + 1].index].content) =>
                            /\ right(got[i + 1].area) + 1 = left(got[i].area)
                            /\ \A j \in 1..Len(got) :
                                  <<left(got[i].area) - 1, r.row>> \notin positions(got[j].area)

\* two one-cell titles right-aligned at the bottom of a four-cell row
C25_Witness ==
    /\ Rendered
    /\ Last.block.borders = NONE
    /\ Last.area = Rect(0, 0, 4, 2)
    /\ filtered_titles(Last.block, "Bottom", "Right") = <<1, 2>>
    /\ pass_entries("Bottom", "Right") =
          << [index |-> 2, pass |-> "Right", area |-> Rect(3, 1, 1, 1)],
             [index |-> 1, pass |-> "Right", area |-> Rect(1, 1, 1, 1)] >>
    /\ symbol_at(1, 1) = "q" /\ symbol_at(2, 1) = " " /\ symbol_at(3, 1) = "q"

\* the width of the first i titles of `order` with one cell between them
RECURSIVE packed_width(_, _, _)
packed_width(b, order, i) ==
    IF i = 0 THEN 0
    ELSE Len(b.titles[order[i]].content) + (IF i > 1 THEN 1 ELSE 0) + packed_width(b, order, i - 1)

\* the titles of a pass in the order the pass processes them
processing_order(b, p, pass) ==
    LET ts == filtered_titles(b, p, pass)
    IN  IF pass = "Right" THEN [i \in 1..Len(ts) |-> ts[Len(ts) + 1 - i]] ELSE ts

\* C26: when the titles of one pass do not fit the row, at most one title of
\* that pass is clipped, it is the last one painted in that pass and it keeps
\* its leading cells (clipped on its trailing side), and every title later
\* in that pass's processing order is not painted at all: in the left and
\* centre passes the clipped title is the first declared title that no
\* longer fits, in the right pass it is the leftmost painted title, i.e. the
\* earliest declared among those painted.
C26_OneClippedTitle ==
    (Rendered /\ ~is_empty(LastPaintArea)) =>
        \A p \in Positions : \A pass \in Alignments :
            LET b == Last.block
                W == title_row(b, LastPaintArea, p).W
                order == processing_order(b, p, pass)
                got == pass_entries(p, pass)
                clipped(e) == e.area.width < Len(b.titles[e.index].content)
                glyph(e, c) == b.titles[e.index].content[c[1] - e.area.x + 1]
                over == { i \in 1..Len(order) : packed_width(b, order, i) > W }
                begun == { i \in 1..Len(order) :
                             packed_width(b, order, i) - Len(b.titles[order[i]].content) < W }
            IN  /\ Len(got) = Cardinality(begun)
                /\ \A i \in 1..Len(got) :
                      /\ got[i].index = order[i]
                      /\ clipped(got[i]) <=> (i \in over /\ \A j \in over : i <= j)
                      /\ clipped(got[i]) =>
                            /\ i = Len(got)
                            /\ got[i].area.width >= 1
                            /\ \A c \in positions(got[i].area) :
                                  (\A k \in 1..Len(paint.titles) :
                                      paint.titles[k] # got[i] =>
                                          c \notin positions(paint.titles[k].area))
                                      => buf.content[c].symbol = glyph(got[i], c)
                            /\ pass = "Right" =>
                                  \A j \in 1..Len(got) :
                                      /\ left(got[i].area) <= left(got[j].area)
                                      /\ got[i].index <= got[j].index

\* two right-aligned titles of two cells on a four-cell row: the earlier
\* declared one is painted last, leftmost, and keeps its first glyph only
C26_Witness ==
    /\ Rendered
    /\ Last.block.borders = NONE
    /\ Last.area = Rect(0, 0, 4, 1)
    /\ filtered_titles(Last.block, "Top", "Right") = <<1, 2>>
    /\ pass_entries("Top", "Right") =
          << [index |-> 2, pass |-> "Right", area |-> Rect(2, 0, 2, 1)],
             [index |-> 1, pass |-> "Right", area |-> Rect(0, 0, 1, 1)] >>
    /\ symbol_at(0, 0) = "r" /\ symbol_at(1, 0) = " "
    /\ symbol_at(2, 0) = "r" /\ symbol_at(3, 0) = "s"

\* the orders in which the four corners can be resolved
CornerOrders ==
    { o \in [1..4 -> { CornerOrder[i] : i \in 1..4 }] : \A i, j \in 1..4 : o[i] = o[j] => i = j }

\* the grid the last render call leaves when it resolves the corners in the
\* order `order`
grid_in_order(order) ==
    LET b == Last.block
        pa == LastPaintArea
        filled == set_style(PaintState([area |-> buf.area, content |-> prev]), pa, b.style)
        edges == render_edges(b, pa, filled)
    IN  render_titles(b, pa, resolve_corners(b, edges, pa, order, 1)).content

\* C27 as stated: the four corner cells of a paint area are pairwise
\* distinct, so the final grid does not depend on the order in which the
\* four corners are resolved: for every non-empty paint area (width 1 or
\* height 1 included) and every set of visible and merged edges, any
\* permutation of the corner order yields the same grid.
C27_AnyPaintArea ==
    (Rendered /\ ~is_empty(LastPaintArea)) =>
        \A order \in CornerOrders : grid_in_order(order) = buf.content

\* C27 amended: on a paint area at least two cells wide and two cells high
\* the four corner cells are pairwise distinct and any permutation of the
\* corner order yields the same grid, for every set of visible and merged
\* edges.
C27_CornerOrderIrrelevant ==
    (Rendered /\ LastPaintArea.width >= 2 /\ LastPaintArea.height >= 2) =>
        /\ Cardinality({ c.cell : c \in corners(LastPaintArea) }) = 4
        /\ \A order \in CornerOrders : grid_in_order(order) = buf.content

\* an all-edges frame merging Left and Top over the frame already drawn: the
\* four corners were resolved and the top-right one became a junction
C27_Witness ==
    /\ FourCorners
    /\ layout.prior = "framed"
    /\ Last.block.borders = ALL
    /\ Last.block.merge_borders = {LEFT, TOP}
    /\ Last.block.border_style = "default"
    /\ Last.area = Rect(1, 1, 2, 2)
    /\ Len(paint.corners) = 4
    /\ prev[<<2, 0>>].symbol = "H"
    /\ buf.content[<<2, 0>>].symbol # "H"

\* the cell c lies in the area grown by one toward each edge of m: Left and
\* Top move the origin back by one, Right and Bottom move the far bound out
in_expanded(c, area, m) ==
    /\ area.x - flag(LEFT \in m) <= c[1]
    /\ c[1] < area.x + area.width + flag(RIGHT \in m)
    /\ area.y - flag(TOP \in m) <= c[2]
    /\ c[2] < area.y + area.height + flag(BOTTOM \in m)

\* C28: a render call changes no cell, in glyph or in style, outside the
\* intersection of the grid bounds with the merge-expanded paint area; with
\* no merged edges it changes no cell outside the intersection of the
\* requested area with the grid, whatever the titles' widths are.
C28_NoChangeOutsidePaintArea ==
    history # << >> =>
        \A c \in DOMAIN buf.content :
            ~in_expanded(c, Last.area, Last.block.merge_borders) => buf.content[c] = prev[c]

\* the area grown by one unit toward each edge of m
expanded_toward(area, m) ==
    Rect(area.x - flag(LEFT \in m), area.y - flag(TOP \in m),
         area.width + flag(LEFT \in m) + flag(RIGHT \in m),
         area.height + flag(TOP \in m) + flag(BOTTOM \in m))

\* C29: space accounting is consistent between inner and the paint-area
\* expansion: for every area with x >= 1, y >= 1, width >= 1 and height >= 1,
\* every padding, every list of titles and every set of merged edges M
\* contained in the visible edges B, inner of the frame with (B, M) at the
\* area equals inner of the same frame with no merged edges at the area
\* expanded by one unit toward each edge of M.
C29_InnerMatchesExpansion ==
    LET b == query.block
        a == query.area
    IN  (/\ query.asked /\ ~query.panicked
         /\ a.x >= 1 /\ a.y >= 1 /\ a.width >= 1 /\ a.height >= 1
         /\ b.merge_borders \subseteq b.borders)
            => query.result = inner(merge_with(b, NONE), expanded_toward(a, b.merge_borders))

\* tests::inner_takes_into_account_merge: Left and Top merged, Right and
\* Bottom inset
C29_Witness ==
    /\ query.asked
    /\ query.block.borders = ALL
    /\ query.block.merge_borders = {LEFT, TOP}
    /\ query.block.titles = << >>
    /\ query.block.padding = PaddingZero
    /\ query.area = Rect(1, 1, 5, 5)
    /\ query.result = Rect(1, 1, 4, 4)
    /\ inner(merge_with(query.block, NONE), Rect(0, 0, 6, 6)) = Rect(1, 1, 4, 4)

\* the grid after the frames fs[k..] are rendered, in this order, onto g
RECURSIVE rendered_in_order(_, _, _)
rendered_in_order(fs, k, g) ==
    IF k > Len(fs) THEN g
    ELSE rendered_in_order(fs, k + 1,
             [g EXCEPT !.content = render_ref(fs[k].block, fs[k].area, g).content])

glyphs(content) == [c \in DOMAIN content |-> content[c].symbol]

\* C30: sibling merges commute: in the 2x2 arrangement of four all-edges
\* frames with the same symbol table at (0,0,10,3) unmerged, (0,3,10,2)
\* merging Top, (10,0,5,3) merging Left and (10,3,5,2) merging Left+Top on a
\* 15x5 grid, rendering the unmerged frame first and the Left+Top frame last
\* yields the same final glyph grid whether the Top-merging frame is
\* rendered before or after the Left-merging frame.
C30_SiblingMergesCommute ==
    \A set \in Tables :
        LET fs == CrossLayout(set)
        IN  (/\ layout.frames = fs
             /\ history = << fs[1], fs[3], fs[2], fs[4] >>
             /\ ~paint.panicked)
                => glyphs(buf.content)
                     = glyphs(rendered_in_order(fs, 1, Buffer_empty(layout.grid)).content)

\* the Left-merging frame rendered before the Top-merging one: the cross
\* is in (9,2) all the same
C30_Witness ==
    /\ layout.frames = CrossLayout(PLAIN)
    /\ history = << layout.frames[1], layout.frames[3], layout.frames[2], layout.frames[4] >>
    /\ ~paint.panicked
    /\ symbol_at(9, 2) = "X"
    /\ symbol_at(9, 0) = "TD" /\ symbol_at(0, 2) = "JR"

====
